---- MODULE Spec2Model ----
(***************************************************************************)
(* Model of lutfiy/ngram_zwnj.py: GenericNGramPredictor, the character     *)
(* n-gram model that decides, for every occurrence of the letter HEH,      *)
(* whether to leave the text, insert a ZWNJ after it, or turn a following  *)
(* space into a ZWNJ.                                                      *)
(*                                                                         *)
(* A Python str is a sequence of one-character strings.  Positions are the *)
(* 0-based positions of the source.  A float is the exact rational it      *)
(* denotes: smoothing = 1e-6 is 1/SmoothingDen, a probability is a pair    *)
(* num/den of integers, and exp(total_log_prob / count) is kept as the     *)
(* product of the probabilities (two arbitrary-precision naturals) with    *)
(* the count, compared by cross-multiplied powers.                         *)
(***************************************************************************)
EXTENDS Integers, Sequences, FiniteSets, TLC

\* ------------------------------------------------------------------ bounds
MaxN == 2          \* the orders n of the model are 1..MaxN
MaxCalls == 1      \* inference calls made between two trainings
MaxWindow == 1     \* explicit window_size arguments are 1..MaxWindow

\* --------------------------------------------------------------- characters
HEH == "h"         \* the marker letter
ZWNJ == "z"        \* zero width non-joiner
SPACE == " "
TAB == "\t"
Whitespace == {SPACE, TAB}

\* Optional[...] arguments: None, or Some(x) with the value Val(o)
None == <<>>
Some(x) == <<x>>
Val(o) == o[1]

\* ------------------------------------------------------- Python primitives
Min(a, b) == IF a <= b THEN a ELSE b
Max(a, b) == IF a >= b THEN a ELSE b

\* s[a:b] for 0 <= a, 0 <= b
Slice(s, a, b) ==
  LET lo == Min(a, Len(s))
      hi == Min(b, Len(s))
  IN  IF hi <= lo THEN <<>> ELSE SubSeq(s, lo + 1, hi)

\* s[i] for 0 <= i < len(s)
At(s, i) == s[i + 1]

\* defaultdict(int): reading a missing key yields 0 and stores the key
Get(d, k) == IF k \in DOMAIN d THEN d[k] ELSE 0
Touch(d, k) == IF k \in DOMAIN d THEN d ELSE d @@ (k :> 0)
Inc(d, k) == IF k \in DOMAIN d THEN [d EXCEPT ![k] = @ + 1] ELSE d @@ (k :> 1)
EmptyDict == <<>>

RECURSIVE Pow(_, _)
Pow(b, e) == IF e = 0 THEN 1 ELSE b * Pow(b, e - 1)

\* ----------------------------------------- arbitrary-precision naturals
\* little-endian limbs in base Base, no leading zero limb; zero is <<>>
Base == 10 * 10 * 10

RECURSIVE ToBig(_)
ToBig(x) == IF x = 0 THEN <<>> ELSE <<x % Base>> \o ToBig(x \div Base)

\* schoolbook product: the limb sums of the convolution, then the carries
RECURSIVE ConvSum(_, _, _, _, _)
ConvSum(a, b, k, i, hi) ==
  IF i > hi THEN 0 ELSE a[i] * b[k + 1 - i] + ConvSum(a, b, k, i + 1, hi)

RECURSIVE Carry(_, _, _)
Carry(x, i, carry) ==
  IF i > Len(x) THEN ToBig(carry)
  ELSE LET t == x[i] + carry
       IN  <<t % Base>> \o Carry(x, i + 1, t \div Base)

BigMul(a, b) ==
  IF a = <<>> \/ b = <<>> THEN <<>>
  ELSE Carry([k \in 1..(Len(a) + Len(b) - 1) |->
                ConvSum(a, b, k, Max(1, k + 1 - Len(b)), Min(k, Len(a)))], 1, 0)

RECURSIVE BigPow(_, _)
BigPow(a, e) == IF e = 0 THEN <<1>> ELSE BigMul(a, BigPow(a, e - 1))

RECURSIVE BigLessFrom(_, _, _)
BigLessFrom(a, b, i) ==
  IF i = 0 THEN FALSE
  ELSE IF a[i] # b[i] THEN a[i] < b[i]
  ELSE BigLessFrom(a, b, i - 1)

BigLess(a, b) ==
  IF Len(a) # Len(b) THEN Len(a) < Len(b) ELSE BigLessFrom(a, b, Len(a))

\* ------------------------------------------------------------- the model
SmoothingDen == 1000000   \* self.smoothing = 1e-6 = 1 / SmoothingDen

VARIABLES
  n, ngram_counts, context_counts, vocab, smoothing, total_ngrams, is_trained,
  pc, text, window_size, result, offset, heh_positions, idx,
  ret, calls, corpus, retrained, decisions

attrs == <<n, ngram_counts, context_counts, vocab, smoothing, total_ngrams, is_trained>>
locals == <<text, window_size, result, offset, heh_positions, idx>>
\* ret: the outcome of the latest call; calls: inference calls since the latest
\* train; corpus: the argument of the latest train; retrained: whether that train
\* ran on a trained model that had served calls; decisions: the passes of the
\* loop of the latest process_text
vars == <<attrs, pc, locals, ret, calls, corpus, retrained, decisions>>

\* the object, as the methods see it
Self ==
  [n |-> n, ngram_counts |-> ngram_counts, context_counts |-> context_counts,
   vocab |-> vocab, smoothing |-> smoothing, total_ngrams |-> total_ngrams,
   is_trained |-> is_trained]

Store(self) ==
  /\ n' = self.n
  /\ ngram_counts' = self.ngram_counts
  /\ context_counts' = self.context_counts
  /\ vocab' = self.vocab
  /\ smoothing' = self.smoothing
  /\ total_ngrams' = self.total_ngrams
  /\ is_trained' = self.is_trained

\* outcome of a method: the object after it, and a return value or an exception
NotTrained == "ValueError: Model must be trained or loaded before use"
ZeroDivision == "ZeroDivisionError"
Raise(self, e) == [self |-> self, kind |-> "error", err |-> e, value |-> <<>>]
Return(self, v) == [self |-> self, kind |-> "ok", err |-> "", value |-> v]

\* ------------------------------------------------------------------ train
RECURSIVE lstrip(_)
lstrip(s) == IF s # <<>> /\ Head(s) \in Whitespace THEN lstrip(Tail(s)) ELSE s

RECURSIVE rstrip(_)
rstrip(s) ==
  IF s # <<>> /\ s[Len(s)] \in Whitespace THEN rstrip(SubSeq(s, 1, Len(s) - 1)) ELSE s

strip(s) == rstrip(lstrip(s))

\* re.sub(r'\s+', ' ', s)
RECURSIVE collapse(_)
collapse(s) ==
  IF s = <<>> THEN <<>>
  ELSE IF Head(s) \in Whitespace THEN <<SPACE>> \o collapse(lstrip(Tail(s)))
  ELSE <<Head(s)>> \o collapse(Tail(s))

clean(t) == collapse(strip(t))

RECURSIVE add_chars(_, _)
add_chars(v, ngram) ==
  IF ngram = <<>> THEN v ELSE add_chars(v \cup {Head(ngram)}, Tail(ngram))

\* the context taken as the last n-1 characters of the n-gram
count_ngram_suffix(self, t, i) ==
  LET ngram == Slice(t, i, i + self.n)
      context == Slice(ngram, 1, Len(ngram))
  IN  [self EXCEPT
         !.ngram_counts = Inc(@, ngram),
         !.total_ngrams = @ + 1,
         !.vocab = add_chars(@, ngram),
         !.context_counts = IF self.n > 1 THEN Inc(@, context) ELSE @]

\* one pass of "for i in range(len(text) - self.n + 1)"
count_ngram(self, t, i) ==
  LET ngram == Slice(t, i, i + self.n)
      context == Slice(ngram, 0, Len(ngram) - 1)
  IN  [self EXCEPT
         !.ngram_counts = Inc(@, ngram),
         !.total_ngrams = @ + 1,
         !.vocab = add_chars(@, ngram),
         !.context_counts = IF self.n > 1 THEN Inc(@, context) ELSE @]

RECURSIVE train_text(_, _, _)
train_text(self, t, i) ==
  IF i >= Len(t) - self.n + 1 THEN self
  ELSE train_text(count_ngram(self, t, i), t, i + 1)

RECURSIVE train_texts(_, _)
train_texts(self, texts) ==
  IF texts = <<>> THEN self
  ELSE train_texts(train_text(self, clean(Head(texts)), 0), Tail(texts))

\* the counters of the earlier training kept
reset_counters_kept(self) == self

reset_counters(self) ==
  [self EXCEPT !.ngram_counts = EmptyDict, !.context_counts = EmptyDict,
               !.vocab = {}, !.total_ngrams = 0]

train(self, texts) ==
  [train_texts(reset_counters(self), texts) EXCEPT !.is_trained = TRUE]

\* -------------------------------------------------- get_ngram_probability
\* (count + smoothing) / (base + smoothing * size), as the exact fraction
smoothed(self, count, base, size) ==
  LET num == count * self.smoothing.den + self.smoothing.num
      den == base * self.smoothing.den + self.smoothing.num * size
  IN  IF den = 0 THEN Raise(self, ZeroDivision)
      ELSE Return(self, [num |-> num, den |-> den])

conditional_probability(self, ngram, given_context) ==
  LET context_count == Get(self.context_counts, given_context)
      ngram_count == Get(self.ngram_counts, ngram)
      read == [self EXCEPT !.context_counts = Touch(@, given_context),
                           !.ngram_counts = Touch(@, ngram)]
      vocab_size == Cardinality(self.vocab)
  IN  IF context_count = 0
      THEN smoothed(read, ngram_count, self.total_ngrams, vocab_size)
      ELSE smoothed(read, ngram_count, context_count, vocab_size)

joint_probability(self, ngram) ==
  LET vocab_size == Pow(Cardinality(self.vocab), self.n)
      read == [self EXCEPT !.ngram_counts = Touch(@, ngram)]
  IN  smoothed(read, Get(self.ngram_counts, ngram), self.total_ngrams, vocab_size)

\* the method without its is_trained check
get_ngram_probability_unchecked(self, ngram, given_context) ==
  IF given_context # None
  THEN conditional_probability(self, ngram, Val(given_context))
  ELSE joint_probability(self, ngram)

get_ngram_probability(self, ngram, given_context) ==
  IF ~self.is_trained THEN Raise(self, NotTrained)
  ELSE IF given_context # None
       THEN conditional_probability(self, ngram, Val(given_context))
       ELSE joint_probability(self, ngram)

\* ----------------------------------------------------- get_sequence_score
\* a score is (num / den) ^ (1 / count): exp(total_log_prob / count), where
\* total_log_prob is the log of the product num / den of count probabilities
AsScore(prob) == [num |-> ToBig(prob.num), den |-> ToBig(prob.den), count |-> 1]

\* x < y, for scores
ScoreLess(x, y) ==
  BigLess(BigMul(BigPow(x.num, y.count), BigPow(y.den, x.count)),
          BigMul(BigPow(y.num, x.count), BigPow(x.den, y.count)))

\* "for i in range(len(sequence) - self.n + 1)" from i on
RECURSIVE score_ngrams(_, _, _, _)
score_ngrams(self, sequence, i, acc) ==
  IF i >= Len(sequence) - self.n + 1
  THEN IF acc.count = 0 THEN Return(self, AsScore(self.smoothing))
       ELSE Return(self, acc)
  ELSE LET ngram == Slice(sequence, i, i + self.n)
           context == Slice(ngram, 0, Len(ngram) - 1)
           prob == get_ngram_probability(self, ngram, Some(context))
       IN  IF prob.kind = "error" THEN prob
           ELSE score_ngrams(prob.self, sequence, i + 1,
                  [num |-> BigMul(acc.num, ToBig(prob.value.num)),
                   den |-> BigMul(acc.den, ToBig(prob.value.den)),
                   count |-> acc.count + 1])

get_sequence_score(self, t, start_pos, w) ==
  IF ~self.is_trained THEN Raise(self, NotTrained)
  ELSE LET end_pos == Min(start_pos + w, Len(t))
           sequence == Slice(t, start_pos, end_pos)
       IN  IF Len(sequence) < self.n
           THEN LET prob == get_ngram_probability(self, sequence, None)
                IN  IF prob.kind = "error" THEN prob
                    ELSE Return(prob.self, AsScore(prob.value))
           ELSE score_ngrams(self, sequence, 0, [num |-> <<1>>, den |-> <<1>>, count |-> 0])

\* ------------------------------------------------------- decide_after_heh
\* options is the dict in insertion order: a sequence of [key, score]
Keys(options) == {options[j].key : j \in 1..Len(options)}
ScoreOf(options, k) == options[CHOOSE j \in 1..Len(options) : options[j].key = k].score

insert_after(t, pos) == Slice(t, 0, pos + 1) \o <<ZWNJ>> \o Slice(t, pos + 1, Len(t))
replace_after(t, pos) == Slice(t, 0, pos + 1) \o <<ZWNJ>> \o Slice(t, pos + 2, Len(t))

\* Option 3: Replace space with ZWNJ (if there's a space after the marker)
option_replace(self, options, t, heh_pos, w) ==
  IF heh_pos + 1 < Len(t) /\ At(t, heh_pos + 1) = SPACE
  THEN LET sc == get_sequence_score(self, replace_after(t, heh_pos), heh_pos, w)
       IN  IF sc.kind = "error" THEN sc
           ELSE Return(sc.self,
                  Append(options, [key |-> "replace_space_with_zwnj", score |-> sc.value]))
  ELSE Return(self, options)

\* option 2 offered only when a character follows the marker
option_insert_strict(self, options, t, heh_pos, w) ==
  IF heh_pos + 1 < Len(t)
  THEN LET sc == get_sequence_score(self, insert_after(t, heh_pos), heh_pos, w + 1)
       IN  IF sc.kind = "error" THEN sc
           ELSE option_replace(sc.self,
                  Append(options, [key |-> "insert_zwnj", score |-> sc.value]),
                  t, heh_pos, w)
  ELSE option_replace(self, options, t, heh_pos, w)

\* Option 2: Insert ZWNJ after the marker
option_insert(self, options, t, heh_pos, w) ==
  IF heh_pos + 1 <= Len(t)
  THEN LET sc == get_sequence_score(self, insert_after(t, heh_pos), heh_pos, w + 1)
       IN  IF sc.kind = "error" THEN sc
           ELSE option_replace(sc.self,
                  Append(options, [key |-> "insert_zwnj", score |-> sc.value]),
                  t, heh_pos, w)
  ELSE option_replace(self, options, t, heh_pos, w)

\* Option 1: Leave as is (no change)
option_no_change(self, t, heh_pos, w) ==
  LET sc == get_sequence_score(self, t, heh_pos, w)
  IN  IF sc.kind = "error" THEN sc
      ELSE option_insert(sc.self, <<[key |-> "no_change", score |-> sc.value]>>,
                         t, heh_pos, w)

decide_after_heh(self, t, heh_pos, w) ==
  IF ~self.is_trained THEN Raise(self, NotTrained)
  ELSE option_no_change(self, t, heh_pos, IF w = None THEN self.n * 2 ELSE Val(w))

\* max(options.keys(), key=lambda k: options[k]): the first key of maximal score
RECURSIVE max_from(_, _, _)
max_from(options, j, best) ==
  IF j > Len(options) THEN options[best].key
  ELSE max_from(options, j + 1,
                IF ScoreLess(options[best].score, options[j].score) THEN j ELSE best)

\* the last key of maximal score: a later equal score replaces the best
RECURSIVE max_last_from(_, _, _)
max_last_from(options, j, best) ==
  IF j > Len(options) THEN options[best].key
  ELSE max_last_from(options, j + 1,
                     IF ScoreLess(options[j].score, options[best].score) THEN best ELSE j)

best_option_last(options) == max_last_from(options, 2, 1)

best_option_of(options) == max_from(options, 2, 1)

\* ----------------------------------------------------------- process_text
RECURSIVE positions_from(_, _)
positions_from(t, i) ==
  IF i >= Len(t) THEN <<>>
  ELSE (IF At(t, i) = HEH THEN <<i>> ELSE <<>>) \o positions_from(t, i + 1)

\* the positions of the markers and of the ZWNJs
RECURSIVE positions_or_zwnj_from(_, _)
positions_or_zwnj_from(t, i) ==
  IF i >= Len(t) THEN <<>>
  ELSE (IF At(t, i) \in {HEH, ZWNJ} THEN <<i>> ELSE <<>>) \o positions_or_zwnj_from(t, i + 1)

find_heh_or_zwnj_positions(t) == positions_or_zwnj_from(t, 0)

\* [i for i, char in enumerate(text) if char == HEH]
find_heh_positions(t) == positions_from(t, 0)

\* the ZWNJ put in front of the marker instead of after it
apply_option_before(buf, current_pos, best_option) ==
  IF best_option = "insert_zwnj"
  THEN Slice(buf, 0, current_pos) \o <<ZWNJ>> \o Slice(buf, current_pos, Len(buf))
  ELSE IF best_option = "replace_space_with_zwnj"
       THEN IF current_pos + 1 < Len(buf) /\ At(buf, current_pos + 1) = SPACE
            THEN [buf EXCEPT ![current_pos + 2] = ZWNJ]
            ELSE buf
       ELSE buf

\* the ZWNJ of insert_zwnj written over the character after the marker
apply_option_overwrite(buf, current_pos, best_option) ==
  IF best_option \in {"insert_zwnj", "replace_space_with_zwnj"}
  THEN IF current_pos + 1 < Len(buf)
       THEN [buf EXCEPT ![current_pos + 2] = ZWNJ]
       ELSE buf
  ELSE buf

\* "Apply the best option" to the buffer at current_pos
apply_option(buf, current_pos, best_option) ==
  IF best_option = "insert_zwnj" THEN insert_after(buf, current_pos)
  ELSE IF best_option = "replace_space_with_zwnj"
       THEN IF current_pos + 1 < Len(buf) /\ At(buf, current_pos + 1) = SPACE
            THEN [buf EXCEPT ![current_pos + 2] = ZWNJ]
            ELSE buf
       ELSE buf

\* the offset left as it was after an insertion
next_offset_stale(off, best_option) == off

next_offset(off, best_option) == IF best_option = "insert_zwnj" THEN off + 1 ELSE off

\* ----------------------------------------------------------- analyze_text
RECURSIVE analyze_from(_, _, _, _, _)
analyze_from(self, t, w, positions, results) ==
  IF positions = <<>> THEN Return(self, results)
  ELSE LET pos == Head(positions)
           d == decide_after_heh(self, t, pos, Some(w))
       IN  IF d.kind = "error" THEN d
           ELSE analyze_from(d.self, t, w, Tail(positions),
                  Append(results,
                    [position |-> pos,
                     context |-> Slice(t, Max(0, pos - 5), Min(Len(t), pos + 6)),
                     options |-> d.value,
                     best_option |-> best_option_of(d.value)]))

\* the confidence of a record (best score / sum of the scores) is a sum of
\* roots and is left out: no result below reads it
analyze_text(self, t, w) ==
  IF ~self.is_trained THEN Raise(self, NotTrained)
  ELSE analyze_from(self, t, IF w = None THEN self.n * 2 ELSE Val(w),
                    find_heh_positions(t), <<>>)

\* ------------------------------------------------------------ the inputs
Orders == 1..MaxN

Corpora ==
  { <<>>,
    << <<"a">> >>,
    << <<"h", "z", "a", "h", "z">> >>,
    << <<"h", "a", "h">>, <<" ", "h", " ", "\t", "a", " ">> >> }

Texts ==
  { <<>>,
    <<"a", " ", "z">>,
    <<"a", "h">>,
    <<"h", " ", "a">>,
    <<"h", "a", "h">>,
    <<"h", " ", "h">> }

WindowArgs == {None} \cup {Some(w) : w \in 1..MaxWindow}

NgramArgs == { <<"a">>, <<"z">>, <<"h", "z">>, <<"a", "h">>, <<"h", "z", "a">> }
ContextArgs(ngram) == {None, Some(Slice(ngram, 0, Len(ngram) - 1)), Some(<<"z">>)}

\* ------------------------------------------------------------ the actions
Outcome(op, args, out) ==
  [op |-> op, args |-> args, kind |-> out.kind, err |-> out.err, value |-> out.value]

NoLocals ==
  /\ text' = <<>>
  /\ window_size' = 0
  /\ result' = <<>>
  /\ offset' = 0
  /\ heh_positions' = <<>>
  /\ idx' = 0

Init ==
  /\ n \in Orders
  /\ ngram_counts = EmptyDict
  /\ context_counts = EmptyDict
  /\ vocab = {}
  /\ smoothing = [num |-> 1, den |-> SmoothingDen]
  /\ total_ngrams = 0
  /\ is_trained = FALSE
  /\ pc = "idle"
  /\ text = <<>>
  /\ window_size = 0
  /\ result = <<>>
  /\ offset = 0
  /\ heh_positions = <<>>
  /\ idx = 0
  /\ ret = Outcome("__init__", <<>>, Return(<<>>, <<>>))
  /\ calls = 0
  /\ corpus = <<>>
  /\ retrained = FALSE
  /\ decisions = <<>>

Train(texts) ==
  /\ pc = "idle"
  /\ Store(train(Self, texts))
  /\ ret' = Outcome("train", <<texts>>, Return(<<>>, <<>>))
  /\ calls' = 0
  /\ corpus' = texts
  /\ retrained' = (is_trained /\ calls > 0)
  /\ decisions' = <<>>
  /\ UNCHANGED <<pc, locals>>

\* a call of a method that runs to its end in one step
Call(op, args, out) ==
  /\ pc = "idle"
  /\ calls < MaxCalls
  /\ Store(out.self)
  /\ ret' = Outcome(op, args, out)
  /\ calls' = calls + 1
  /\ decisions' = <<>>
  /\ UNCHANGED <<pc, locals, corpus, retrained>>

Probability(ngram, given_context) ==
  Call("get_ngram_probability", <<ngram, given_context>>,
       get_ngram_probability(Self, ngram, given_context))

Score(t, start_pos, w) ==
  Call("get_sequence_score", <<t, start_pos, w>>,
       get_sequence_score(Self, t, start_pos, w))

Decide(t, heh_pos, w) ==
  Call("decide_after_heh", <<t, heh_pos, w>>,
       decide_after_heh(Self, t, heh_pos, w))

Analyze(t, w) ==
  Call("analyze_text", <<t, w>>, analyze_text(Self, t, w))

\* process_text up to the loop: the trained check, the buffer, the positions
ProcessBegin(t, w) ==
  /\ pc = "idle"
  /\ calls < MaxCalls
  /\ calls' = calls + 1
  /\ decisions' = <<>>
  /\ UNCHANGED <<attrs, corpus, retrained>>
  /\ IF ~is_trained
     THEN /\ ret' = Outcome("process_text", <<t, w>>, Raise(Self, NotTrained))
          /\ UNCHANGED <<pc, locals>>
     ELSE /\ pc' = "loop"
          /\ text' = t
          /\ window_size' = (IF w = None THEN n * 2 ELSE Val(w))
          /\ result' = t
          /\ offset' = 0
          /\ heh_positions' = find_heh_positions(t)
          /\ idx' = 1
          /\ ret' = [op |-> "process_text", args |-> <<t, w>>, kind |-> "running",
                     err |-> "", value |-> <<>>]

\* one pass of "for original_pos in heh_positions"
ProcessStep ==
  /\ pc = "loop"
  /\ idx <= Len(heh_positions)
  /\ LET original_pos == heh_positions[idx]
         current_pos == original_pos + offset
         current_text == result
         d == decide_after_heh(Self, current_text, current_pos, Some(window_size))
     IN  /\ Store(d.self)
         /\ IF d.kind = "error"
            THEN /\ ret' = Outcome("process_text", ret.args, d)
                 /\ pc' = "idle"
                 /\ NoLocals
                 /\ decisions' = Append(decisions,
                      [original_pos |-> original_pos, offset |-> offset,
                       heh_pos |-> current_pos, text |-> current_text,
                       options |-> <<>>, best_option |-> "", after |-> result])
            ELSE LET best_option == best_option_of(d.value)
                 IN  /\ result' = apply_option(result, current_pos, best_option)
                     /\ offset' = next_offset(offset, best_option)
                     /\ idx' = idx + 1
                     /\ decisions' = Append(decisions,
                          [original_pos |-> original_pos, offset |-> offset,
                           heh_pos |-> current_pos, text |-> current_text,
                           options |-> d.value, best_option |-> best_option,
                           after |-> result'])
                     /\ UNCHANGED <<pc, text, window_size, heh_positions, ret>>
  /\ UNCHANGED <<calls, corpus, retrained>>

\* return ''.join(result)
ProcessReturn ==
  /\ pc = "loop"
  /\ idx > Len(heh_positions)
  /\ ret' = Outcome("process_text", ret.args, Return(Self, result))
  /\ pc' = "idle"
  /\ NoLocals
  /\ UNCHANGED <<attrs, calls, corpus, retrained, decisions>>

Next ==
  \/ \E texts \in Corpora : Train(texts)
  \/ \E ngram \in NgramArgs : \E c \in ContextArgs(ngram) : Probability(ngram, c)
  \/ \E t \in Texts : \E s \in 0..1 : \E w \in 1..MaxWindow : Score(t, s, w)
  \/ \E t \in Texts : \E k \in 1..Len(find_heh_positions(t)) : \E w \in WindowArgs :
        Decide(t, find_heh_positions(t)[k], w)
  \/ \E t \in Texts : \E w \in WindowArgs : Analyze(t, w)
  \/ \E t \in Texts : \E w \in WindowArgs : ProcessBegin(t, w)
  \/ ProcessStep
  \/ ProcessReturn

Spec == Init /\ [][Next]_vars

\* ------------------------------------------------------------ the claims
InferenceOps ==
  {"get_ngram_probability", "get_sequence_score", "decide_after_heh",
   "process_text", "analyze_text"}

\* the argument text of the latest process_text or analyze_text
ArgText == ret.args[1]

InsertsIn(ds) == Cardinality({j \in 1..Len(ds) : ds[j].best_option = "insert_zwnj"})

\* the edit an option stands for, written out position by position
EditAt(buf, p, opt) ==
  IF opt = "insert_zwnj"
  THEN [i \in 1..(Len(buf) + 1) |->
          IF i <= p + 1 THEN buf[i] ELSE IF i = p + 2 THEN ZWNJ ELSE buf[i - 1]]
  ELSE IF opt = "replace_space_with_zwnj"
       THEN [i \in 1..Len(buf) |-> IF i = p + 2 THEN ZWNJ ELSE buf[i]]
       ELSE buf

\* the text after the edits of the first j passes
RECURSIVE Replay(_, _, _)
Replay(t, ds, j) ==
  IF j = 0 THEN t ELSE EditAt(Replay(t, ds, j - 1), ds[j].heh_pos, ds[j].best_option)

\* the original offsets of the markers, in ascending order
MarkerSet(t) == {i \in 0..(Len(t) - 1) : At(t, i) = HEH}
IsAscendingMarkers(t, ps) ==
  /\ {ps[j] : j \in 1..Len(ps)} = MarkerSet(t)
  /\ \A j \in 1..(Len(ps) - 1) : ps[j] < ps[j + 1]

\* C1: at the start of the pass for the marker of original offset p, offset is
\* the number of insert_zwnj decisions applied so far and the live buffer holds
\* the marker at p + offset; every decide of process_text was invoked at
\* p + offset on the buffer holding every earlier edit; after an insert_zwnj at
\* the first marker the second decide is invoked at its original offset + 1
C1_OffsetBookkeeping ==
  /\ (pc = "loop") =>
       /\ IsAscendingMarkers(text, heh_positions)
       /\ offset = InsertsIn(decisions)
       /\ Len(decisions) = idx - 1
       /\ result = Replay(text, decisions, Len(decisions))
       /\ idx <= Len(heh_positions) =>
            /\ heh_positions[idx] + offset < Len(result)
            /\ At(result, heh_positions[idx] + offset) = HEH
  /\ \A j \in 1..Len(decisions) :
       LET d == decisions[j]
       IN  /\ d.original_pos \in MarkerSet(ArgText)
           /\ Cardinality({q \in MarkerSet(ArgText) : q < d.original_pos}) = j - 1
           /\ d.offset = InsertsIn(SubSeq(decisions, 1, j - 1))
           /\ d.heh_pos = d.original_pos + d.offset
           /\ d.text = Replay(ArgText, decisions, j - 1)
           /\ d.heh_pos < Len(d.text)
           /\ At(d.text, d.heh_pos) = HEH
  /\ (Len(decisions) >= 2 /\ decisions[1].best_option = "insert_zwnj") =>
       decisions[2].heh_pos = decisions[2].original_pos + 1

\* an insert_zwnj at the first of two markers, and the second decide made
C1_Witness ==
  /\ Len(decisions) >= 2
  /\ decisions[1].best_option = "insert_zwnj"
  /\ decisions[2].heh_pos = decisions[2].original_pos + 1
  /\ At(decisions[2].text, decisions[2].heh_pos) = HEH

\* C2: no probability, score, decide, process or analyze step on a trained
\* model changes an attribute of the model, the keys of the count mappings
\* included
C2_ReadOnlyInference ==
  [][(is_trained /\ ret'.op \in InferenceOps /\ ret'.kind = "ok") => UNCHANGED attrs]_vars

\* C3: on a model never trained, every probability, score, decide, process and
\* analyze call has failed with the model-not-trained error, without a result,
\* without a buffer or a handled marker, and the model is as constructed; and
\* no process_text or analyze_text call, on any model, has failed after a
\* marker was handled or the buffer was changed
C3_UntrainedFails ==
  /\ ~is_trained =>
       /\ ngram_counts = EmptyDict /\ context_counts = EmptyDict
       /\ vocab = {} /\ total_ngrams = 0
       /\ smoothing = [num |-> 1, den |-> SmoothingDen]
       /\ pc = "idle" /\ result = <<>> /\ decisions = <<>>
       /\ ret.op \in InferenceOps =>
            ret.kind = "error" /\ ret.err = NotTrained /\ ret.value = <<>>
  /\ (ret.op \in {"process_text", "analyze_text"} /\ ret.kind = "error") =>
       /\ ret.value = <<>>
       /\ \A j \in 1..Len(decisions) :
            decisions[j].options = <<>> /\ decisions[j].after = ArgText

\* process_text refused on an untrained model, for a text with markers
C3_Witness ==
  /\ ~is_trained
  /\ ret.op = "process_text"
  /\ ret.kind = "error"
  /\ MarkerSet(ArgText) # {}

\* C4: on a trained model get_ngram_probability returns, and returns p with
\* 0 < p <= 1, whatever the n-gram and the context
InUnitInterval(p) == 0 < p.num /\ p.num <= p.den
C4_ProbabilityInUnitInterval ==
  (is_trained /\ ret.op = "get_ngram_probability") =>
    ret.kind = "ok" /\ InUnitInterval(ret.value)

\* C5: the option chosen for a marker, by process_text and by analyze_text, has
\* a maximal score among the options offered and, among the options of that
\* score, comes first in no_change > insert_zwnj > replace_space_with_zwnj
Rank(k) ==
  IF k = "no_change" THEN 1 ELSE IF k = "insert_zwnj" THEN 2 ELSE 3

IsPreferredMax(options, best) ==
  /\ best \in Keys(options)
  /\ \A k \in Keys(options) :
       /\ ~ScoreLess(ScoreOf(options, best), ScoreOf(options, k))
       /\ ~ScoreLess(ScoreOf(options, k), ScoreOf(options, best)) => Rank(best) <= Rank(k)

C5_BestOptionIsPreferredMax ==
  /\ \A j \in 1..Len(decisions) :
       decisions[j].options # <<>> =>
         IsPreferredMax(decisions[j].options, decisions[j].best_option)
  /\ (ret.op = "analyze_text" /\ ret.kind = "ok") =>
       \A j \in 1..Len(ret.value) :
         IsPreferredMax(ret.value[j].options, ret.value[j].best_option)

\* a choice of process_text among options of which two share the maximal score
C5_Witness ==
  \E j \in 1..Len(decisions) :
    /\ decisions[j].options # <<>>
    /\ \E k \in Keys(decisions[j].options) \ {decisions[j].best_option} :
         ~ScoreLess(ScoreOf(decisions[j].options, k),
                    ScoreOf(decisions[j].options, decisions[j].best_option))

\* C6: the options decide_after_heh returns for a marker at heh_pos of a text
\* always hold no_change, hold insert_zwnj (heh_pos + 1 <= len holds for every
\* marker, the last character included), and hold replace_space_with_zwnj
\* exactly when a character follows the marker and it is a space
Offered(t, heh_pos, options) ==
  /\ Keys(options) \subseteq {"no_change", "insert_zwnj", "replace_space_with_zwnj"}
  /\ "no_change" \in Keys(options)
  /\ heh_pos + 1 <= Len(t) => "insert_zwnj" \in Keys(options)
  /\ "replace_space_with_zwnj" \in Keys(options)
       <=> (heh_pos + 1 < Len(t) /\ At(t, heh_pos + 1) = SPACE)
  /\ heh_pos = Len(t) - 1 => Keys(options) = {"no_change", "insert_zwnj"}

C6_OptionsOffered ==
  /\ (ret.op = "decide_after_heh" /\ ret.kind = "ok") =>
       Offered(ret.args[1], ret.args[2], ret.value)
  /\ \A j \in 1..Len(decisions) :
       decisions[j].options # <<>> =>
         Offered(decisions[j].text, decisions[j].heh_pos, decisions[j].options)
  /\ (ret.op = "analyze_text" /\ ret.kind = "ok") =>
       \A j \in 1..Len(ret.value) :
         Offered(ArgText, ret.value[j].position, ret.value[j].options)

\* decide_after_heh returned for a marker that is the last character
C6_Witness ==
  /\ ret.op = "decide_after_heh"
  /\ ret.kind = "ok"
  /\ ret.args[2] = Len(ret.args[1]) - 1
  /\ Keys(ret.value) = {"no_change", "insert_zwnj"}

\* the characters of the inputs, and the sequences of k of them
Alphabet == {HEH, ZWNJ, SPACE, "a"}
Strings(k) == [1..k -> Alphabet]

RECURSIVE SumOver(_, _)
SumOver(f, S) ==
  IF S = {} THEN 0
  ELSE LET x == CHOOSE x \in S : TRUE IN f[x] + SumOver(f, S \ {x})

\* the sum of ngram_counts[g] over the n-grams g whose first n-1 characters are c
CountWithPrefix(c) ==
  SumOver(ngram_counts,
          {g \in DOMAIN ngram_counts : Len(g) = n /\ Slice(g, 0, n - 1) = c})

TotalIsSumOfCounts == total_ngrams = SumOver(ngram_counts, DOMAIN ngram_counts)

\* C7, as claimed: after train, for every order n >= 1 and every context c of
\* n-1 characters, context_counts[c] is the sum of ngram_counts[g] over the
\* n-grams g that start with c, and total_ngrams is the sum of all ngram_counts
C7_ContextCountsSumAnyOrder ==
  is_trained =>
    /\ TotalIsSumOfCounts
    /\ \A c \in Strings(n - 1) \cup DOMAIN context_counts :
         Get(context_counts, c) = CountWithPrefix(c)

\* C7, amended: the same for every order n >= 2; for n = 1 train counts no
\* context, so every context count is 0; total_ngrams is the sum of all
\* ngram_counts for every order
C7_ContextCountsSum ==
  is_trained =>
    /\ TotalIsSumOfCounts
    /\ n >= 2 =>
         \A c \in Strings(n - 1) \cup DOMAIN context_counts :
           Get(context_counts, c) = CountWithPrefix(c)
    /\ n = 1 => \A c \in DOMAIN context_counts : context_counts[c] = 0

\* a context of order n >= 2 counted with two different continuations
C7_Witness ==
  /\ is_trained
  /\ n >= 2
  /\ \E c \in DOMAIN context_counts :
       /\ context_counts[c] >= 2
       /\ Cardinality({g \in DOMAIN ngram_counts :
                         Len(g) = n /\ Slice(g, 0, n - 1) = c /\ ngram_counts[g] > 0}) >= 2

\* the conditional probabilities of the vocabulary characters after context c
CondProbs(c) ==
  [x \in vocab |-> get_ngram_probability(Self, Append(c, x), Some(c))]

\* their sum is within smoothing * |vocab| of 1
SumsToOne(c) ==
  LET probs == CondProbs(c)
      den == probs[CHOOSE x \in vocab : TRUE].value.den
      nums == [x \in vocab |-> probs[x].value.num]
      sum == SumOver(nums, vocab)
      diff == IF sum >= den THEN sum - den ELSE den - sum
  IN  /\ \A x \in vocab : probs[x].kind = "ok"
      /\ \A x \in vocab : probs[x].value.den = den
      /\ diff <= (den * smoothing.num * Cardinality(vocab)) \div smoothing.den

\* C8: on a trained model with a vocabulary, for every context c of n-1
\* characters, seen in training or not, the conditional probabilities of the
\* vocabulary characters after c sum to 1 up to the smoothing error
C8_ConditionalsSumToOne ==
  (is_trained /\ vocab # {}) => \A c \in Strings(n - 1) : SumsToOne(c)

\* the n-gram windows of the cleaned texts of the latest corpus
Windows ==
  UNION {{<<j, i>> : i \in 0..(Len(clean(corpus[j])) - n)} : j \in 1..Len(corpus)}
WindowNgram(w) == Slice(clean(corpus[w[1]]), w[2], w[2] + n)
Occurrences(g) == Cardinality({w \in Windows : WindowNgram(w) = g})
ContextOccurrences(c) ==
  IF n > 1 THEN Cardinality({w \in Windows : Slice(WindowNgram(w), 0, n - 1) = c})
  ELSE 0

\* C9: after train(corpus), whatever was trained and called before, the counts,
\* the vocabulary and the total are those of the n-gram windows of corpus alone
C9_TrainStartsClean ==
  is_trained =>
    /\ total_ngrams = Cardinality(Windows)
    /\ vocab = UNION {{WindowNgram(w)[i] : i \in 1..n} : w \in Windows}
    /\ \A g \in DOMAIN ngram_counts \cup {WindowNgram(w) : w \in Windows} :
         Get(ngram_counts, g) = Occurrences(g)
    /\ \A c \in DOMAIN context_counts \cup {Slice(WindowNgram(w), 0, n - 1) : w \in Windows} :
         Get(context_counts, c) = ContextOccurrences(c)

\* a train of a corpus with n-grams on a model trained before and called since
C9_Witness ==
  /\ ret.op = "train"
  /\ retrained
  /\ total_ngrams > 0

\* C10: on a trained model, for a text without the marker, process_text
\* returns the text as it was given and analyze_text returns no record
C10_NoMarkerNoChange ==
  (is_trained /\ ret.op \in {"process_text", "analyze_text"}
     /\ ret.kind # "running" /\ MarkerSet(ArgText) = {}) =>
    /\ ret.kind = "ok"
    /\ ret.op = "process_text" => ret.value = ArgText
    /\ ret.op = "analyze_text" => ret.value = <<>>

\* process_text returned for a text of spaces and ZWNJs without the marker
C10_Witness ==
  /\ is_trained
  /\ ret.op = "process_text"
  /\ ret.kind = "ok"
  /\ MarkerSet(ArgText) = {}
  /\ ZWNJ \in {ArgText[i] : i \in 1..Len(ArgText)}
  /\ ret.value = ArgText

\* the first k characters of s and of t are the same characters
SamePrefix(s, t, k) ==
  /\ k <= Len(s)
  /\ k <= Len(t)
  /\ \A i \in 1..k : s[i] = t[i]

\* one pass changed its buffer at index heh_pos + 1 only, as its option says
StepFrame(d) ==
  LET p == d.heh_pos
  IN  /\ SamePrefix(d.text, d.after, p + 1)
      /\ d.best_option \in {"no_change", "insert_zwnj", "replace_space_with_zwnj"}
      /\ d.best_option = "no_change" => d.after = d.text
      /\ d.best_option = "insert_zwnj" =>
           /\ Len(d.after) = Len(d.text) + 1
           /\ At(d.after, p + 1) = ZWNJ
           /\ \A i \in (p + 1)..(Len(d.text) - 1) : At(d.after, i + 1) = At(d.text, i)
      /\ d.best_option = "replace_space_with_zwnj" =>
           /\ Len(d.after) = Len(d.text)
           /\ p + 1 < Len(d.text)
           /\ At(d.text, p + 1) = SPACE
           /\ At(d.after, p + 1) = ZWNJ
           /\ \A i \in 0..(Len(d.text) - 1) : i # p + 1 => At(d.after, i) = At(d.text, i)

\* the passes that ran to their end: the pass cut short by an exception of
\* decide_after_heh chose no option
Decided == SelectSeq(decisions, LAMBDA d : d.best_option # "")

\* C11: the passes of process_text decide the markers of the argument text in
\* ascending order of their original offsets, each at most once and, when
\* process_text returns, each exactly once; a pass at the live index current
\* changes the buffer at index current + 1 only (insert_zwnj moves the later
\* characters right by one, replace_space_with_zwnj overwrites that index,
\* no_change nothing); what a pass left up to and including index current + 1
\* is what every later pass, the live buffer and the returned text hold there
C11_GreedyIrrevocablePass ==
  /\ \A j \in 1..Len(decisions) : \A k \in 1..Len(decisions) :
       j < k => decisions[j].original_pos < decisions[k].original_pos
  /\ \A j \in 1..Len(decisions) : decisions[j].original_pos \in MarkerSet(ArgText)
  /\ \A j \in 1..Len(Decided) : StepFrame(Decided[j])
  /\ \A j \in 1..Len(Decided) : \A k \in 1..Len(Decided) :
       j < k =>
         /\ Decided[j].heh_pos + 1 <= Decided[k].heh_pos
         /\ Decided[k].text = Decided[k - 1].after
         /\ SamePrefix(Decided[j].after, Decided[k].text, Decided[j].heh_pos + 1)
         /\ SamePrefix(Decided[j].after, Decided[k].after,
                       Min(Decided[j].heh_pos + 2, Len(Decided[j].after)))
  /\ (pc = "loop") =>
       \A j \in 1..Len(Decided) :
         SamePrefix(Decided[j].after, result,
                    Min(Decided[j].heh_pos + 2, Len(Decided[j].after)))
  /\ (ret.op = "process_text" /\ ret.kind = "ok") =>
       /\ Len(decisions) = Cardinality(MarkerSet(ArgText))
       /\ Decided = decisions
       /\ \A j \in 1..Len(decisions) :
            SamePrefix(decisions[j].after, ret.value,
                       Min(decisions[j].heh_pos + 2, Len(decisions[j].after)))

\* process_text returned after two passes that both edited the buffer: the
\* edit of the first pass is in the returned text, under the edit of the second
C11_Witness ==
  /\ ret.op = "process_text"
  /\ ret.kind = "ok"
  /\ Len(decisions) = 2
  /\ decisions[1].best_option # "no_change"
  /\ decisions[2].best_option # "no_change"
  /\ At(ret.value, decisions[1].heh_pos + 1) = ZWNJ
  /\ At(ret.value, decisions[2].heh_pos + 1) = ZWNJ

\* s without its spaces and its ZWNJs
WithoutJoiners(s) == SelectSeq(s, LAMBDA c : c \notin {SPACE, ZWNJ})

\* the markers of s, in their order
MarkersOf(s) == SelectSeq(s, LAMBDA c : c = HEH)

\* s without the character at the 0-based index i
RemoveAt(s, i) == SubSeq(s, 1, i) \o SubSeq(s, i + 2, Len(s))

\* the indices of t whose character is gone from, or another one in, the text
\* a pass made of it
LostAt(d) ==
  IF Len(d.after) > Len(d.text)
  THEN {i \in 0..(Len(d.text) - 1) : RemoveAt(d.after, d.heh_pos + 1)[i + 1] # At(d.text, i)}
  ELSE {i \in 0..(Len(d.text) - 1) : i >= Len(d.after) \/ At(d.after, i) # At(d.text, i)}

\* C12: the text process_text returns on a trained model is as long as the
\* argument text plus one for every marker decided insert_zwnj; without their
\* spaces and ZWNJs the two texts are the same sequence, and so are their
\* markers; the only character a pass removes or overwrites is a space
\* directly after the marker of that pass
C12_OutputShape ==
  (is_trained /\ ret.op = "process_text" /\ ret.kind = "ok") =>
    /\ Len(ret.value) = Len(ArgText) + InsertsIn(decisions)
    /\ WithoutJoiners(ret.value) = WithoutJoiners(ArgText)
    /\ MarkersOf(ret.value) = MarkersOf(ArgText)
    /\ \A j \in 1..Len(decisions) :
         LET d == decisions[j]
         IN  /\ Len(d.after) \in {Len(d.text), Len(d.text) + 1}
             /\ Len(d.after) = Len(d.text) + 1 <=> d.best_option = "insert_zwnj"
             /\ \A i \in LostAt(d) :
                  /\ i = d.heh_pos + 1
                  /\ At(d.text, i) = SPACE
                  /\ At(d.text, i - 1) = HEH
                  /\ At(d.after, i) = ZWNJ
                  /\ d.best_option = "replace_space_with_zwnj"
    /\ decisions # <<>> => ret.value = decisions[Len(decisions)].after
    /\ decisions = <<>> => ret.value = ArgText

\* process_text returned a text that is longer than its argument by its one
\* insert_zwnj and has the space after its other marker replaced
C12_Witness ==
  /\ is_trained
  /\ ret.op = "process_text"
  /\ ret.kind = "ok"
  /\ \E j \in 1..Len(decisions) : decisions[j].best_option = "insert_zwnj"
  /\ \E j \in 1..Len(decisions) :
       /\ decisions[j].best_option = "replace_space_with_zwnj"
       /\ LostAt(decisions[j]) = {decisions[j].heh_pos + 1}
  /\ Len(ret.value) = Len(ArgText) + 1
  /\ ret.value # ArgText

====
